---- MODULE Spec2Model ----
(***************************************************************************)
(* A model of collection.py: the conversion of Hearthstone card records    *)
(* (JSON) into rows of the Hearthstone Master Collection spreadsheet.      *)
(*                                                                         *)
(* Python strings that the program rewrites, capitalizes, sorts or joins   *)
(* are sequences of characters; a character is a one-character string,     *)
(* except the three named below. Identifiers that are only looked up or    *)
(* compared for equality (tags, set ids, display names of sets, card       *)
(* names) are TLA+ strings. A card is a function from the names of the     *)
(* fields it has to their values; a missing field is missing from DOMAIN.  *)
(***************************************************************************)
EXTENDS Integers, Sequences, FiniteSets, TLC

VARIABLES
    ustring,     \* SpecText: the string normalize_text was last given / returned
    previous,    \* SpecText: the value of ustring before the last pass
    passes,      \* SpecText: how many times normalize_text has been applied
    card,        \* SpecType, SpecKw, SpecParse: the record handed to the function
    given,       \* ... history: the record as it was when the call was made
    called,      \* ... the function that was called on it ("none" before the call)
    ret,         \* ... what the call returned or raised
    collection,  \* Spec: the loaded list of records (parse may modify them)
    sets,        \* Spec: args.sets, the allow-list, <<>> when not given
    idx,         \* Spec: position of the driver loop in collection
    processed,   \* Spec: the rows collected so far
    pc,          \* Spec: "loop", "raised" or "done"
    parsed,      \* Spec: history: the positions of the records handed to parse
    written      \* Spec: the tables handed to output(), in order

vars == <<ustring, previous, passes, card, given, called, ret,
          collection, sets, idx, processed, pc, parsed, written>>

textVars   == <<ustring, previous, passes>>
callVars   == <<card, given, called, ret>>
driverVars == <<collection, sets, idx, processed, pc, parsed, written>>

----------------------------------------------------------------------------
(* Characters *)

NL     == "\n"
NBSP   == "NBSP"    \* u'\xa0', no-break space
RSQUO  == "RSQUO"   \* u'’', right single quotation mark
EACUTE == "EACUTE"  \* u'\xe9', a character outside ASCII that no rule rewrites

LowerLetters == <<"a","b","c","d","e","f","g","h","i","j","k","l","m",
                  "n","o","p","q","r","s","t","u","v","w","x","y","z">>
UpperLetters == <<"A","B","C","D","E","F","G","H","I","J","K","L","M",
                  "N","O","P","Q","R","S","T","U","V","W","X","Y","Z">>

IsLower(c) == \E k \in DOMAIN LowerLetters : LowerLetters[k] = c
IsUpper(c) == \E k \in DOMAIN UpperLetters : UpperLetters[k] = c
IsDigit(c) == c \in {"0","1","2","3","4","5","6","7","8","9"}
\* \s of a pattern compiled without re.UNICODE
IsSpace(c) == c \in {" ", "\t", NL, "\r"}
\* what unicode.strip() removes
IsUnicodeSpace(c) == IsSpace(c) \/ c = NBSP
IsAscii(c) == c \notin {NBSP, RSQUO, EACUTE}

ToUpper(c) == IF IsLower(c)
              THEN UpperLetters[CHOOSE k \in DOMAIN LowerLetters : LowerLetters[k] = c]
              ELSE c
ToLower(c) == IF IsUpper(c)
              THEN LowerLetters[CHOOSE k \in DOMAIN UpperLetters : UpperLetters[k] = c]
              ELSE c

\* ord(c) for the characters that occur in the strings the program sorts
Ord(c) == IF IsUpper(c) THEN 64 + (CHOOSE k \in DOMAIN UpperLetters : UpperLetters[k] = c)
          ELSE IF IsLower(c) THEN 96 + (CHOOSE k \in DOMAIN LowerLetters : LowerLetters[k] = c)
          ELSE IF c = " " THEN 32
          ELSE IF c = "'" THEN 39
          ELSE IF c = ";" THEN 59
          ELSE 0

\* str.capitalize(): first character upper-cased, the rest lower-cased
Capitalize(s) == [k \in DOMAIN s |-> IF k = 1 THEN ToUpper(s[k]) ELSE ToLower(s[k])]

\* s < t for Python strings: lexicographic by character code
RECURSIVE StrLess(_, _)
StrLess(s, t) ==
    IF t = <<>> THEN FALSE
    ELSE IF s = <<>> THEN TRUE
    ELSE IF Ord(Head(s)) # Ord(Head(t)) THEN Ord(Head(s)) < Ord(Head(t))
    ELSE StrLess(Tail(s), Tail(t))

\* t occurs in s at position p
HasAt(s, p, t) ==
    /\ p + Len(t) - 1 <= Len(s)
    /\ \A k \in 1..Len(t) : s[p + k - 1] = t[k]

\* the pair of a set of pairs that a backtracking matcher tries first: the
\* longest first repetition, then the longest second repetition
Greediest(C) ==
    CHOOSE m \in C : \A n \in C : n[1] < m[1] \/ (n[1] = m[1] /\ n[2] <= m[2])

----------------------------------------------------------------------------
(* normalize_text *)

CloseBold == <<"<","/","b",">">>

\* the n characters from position p on are all whitespace
Spaces(s, p, n) == \A k \in p..(p + n - 1) : IsSpace(s[k])

\* matches of </b>\s*\n\s*([^a-z]) that start at p, as <<length of the first
\* \s*, length of the second \s*>>
BreakMatches(s, p) ==
    IF ~HasAt(s, p, CloseBold) THEN {}
    ELSE LET q    == p + Len(CloseBold)
             rest == Len(s) - q
         IN  { m \in {a \in 0..rest : Spaces(s, q, a) /\ s[q + a] = NL} \X (0..rest) :
                 /\ q + m[1] + 1 + m[2] <= Len(s)
                 /\ Spaces(s, q + m[1] + 1, m[2])
                 /\ ~IsLower(s[q + m[1] + 1 + m[2]]) }

\* re.sub(r'</b>\s*\n\s*([^a-z])', r'</b>. \1', s), from position p on
RECURSIVE SubBreakFrom(_, _)
SubBreakFrom(s, p) ==
    IF p > Len(s) THEN <<>>
    ELSE LET C == BreakMatches(s, p)
         IN  IF C # {}
             THEN LET m    == Greediest(C)
                      last == p + Len(CloseBold) + m[1] + 1 + m[2]
                  IN  CloseBold \o <<".", " ", s[last]>> \o SubBreakFrom(s, last + 1)
             ELSE <<s[p]>> \o SubBreakFrom(s, p + 1)

\* matches of \s*\n\s* that start at p
NewlineMatches(s, p) ==
    LET rest == Len(s) - p
    IN  { m \in {a \in 0..rest : Spaces(s, p, a) /\ s[p + a] = NL} \X (0..rest) :
            /\ p + m[1] + m[2] <= Len(s)
            /\ Spaces(s, p + m[1] + 1, m[2]) }

\* re.sub(r'\s*\n\s*', ' ', s), from position p on
RECURSIVE SubNewlineFrom(_, _)
SubNewlineFrom(s, p) ==
    IF p > Len(s) THEN <<>>
    ELSE LET C == NewlineMatches(s, p)
         IN  IF C # {}
             THEN LET m == Greediest(C)
                  IN  <<" ">> \o SubNewlineFrom(s, p + m[1] + m[2] + 1)
             ELSE <<s[p]>> \o SubNewlineFrom(s, p + 1)

\* s.replace(x, y), from position p on (x is not empty)
RECURSIVE ReplaceFrom(_, _, _, _)
ReplaceFrom(s, p, x, y) ==
    IF p > Len(s) THEN <<>>
    ELSE IF HasAt(s, p, x) THEN y \o ReplaceFrom(s, p + Len(x), x, y)
    ELSE <<s[p]>> \o ReplaceFrom(s, p + 1, x, y)

Replace(s, x, y) == ReplaceFrom(s, 1, x, y)

replacements == << <<<<NBSP>>, <<" ">>>>, <<<<RSQUO>>, <<"'">>>>,
                   <<<<"<","b",">">>, <<>>>>, <<<<"<","/","b",">">>, <<>>>>,
                   <<<<"<","i",">">>, <<>>>>, <<<<"<","/","i",">">>, <<>>>>, <<<<"[","x","]">>, <<>>>> >>

\* the loop over replacements, from its k-th pair on
RECURSIVE ReplaceEach(_, _)
ReplaceEach(s, k) ==
    IF k > Len(replacements) THEN s
    ELSE ReplaceEach(Replace(s, replacements[k][1], replacements[k][2]), k + 1)

\* the length of the run of digits that starts at p
RECURSIVE DigitRun(_, _)
DigitRun(s, p) == IF p <= Len(s) /\ IsDigit(s[p]) THEN 1 + DigitRun(s, p + 1) ELSE 0

\* re.sub(mark + r'(\d+)', r'\1', s), from position p on
RECURSIVE SubPrefixFrom(_, _, _)
SubPrefixFrom(s, p, mark) ==
    IF p > Len(s) THEN <<>>
    ELSE IF s[p] = mark /\ DigitRun(s, p + 1) > 0
         THEN LET d == DigitRun(s, p + 1)
              IN  SubSeq(s, p + 1, p + d) \o SubPrefixFrom(s, p + 1 + d, mark)
         ELSE <<s[p]>> \o SubPrefixFrom(s, p + 1, mark)

\* unicode.strip()
RECURSIVE LStrip(_)
LStrip(s) == IF s # <<>> /\ IsUnicodeSpace(Head(s)) THEN LStrip(Tail(s)) ELSE s
RECURSIVE RStrip(_)
RStrip(s) == IF s # <<>> /\ IsUnicodeSpace(s[Len(s)])
             THEN RStrip(SubSeq(s, 1, Len(s) - 1)) ELSE s
Strip(s) == RStrip(LStrip(s))

Contains(s, c) == \E k \in DOMAIN s : s[k] = c

\* the trailing period of lines 101-102
EndWithPeriod(s) ==
    IF Contains(s, ".") /\ s[Len(s)] \notin {".", ")", "'", "\""}
    THEN s \o <<".">> ELSE s

normalize_text(s) ==
    LET broken    == SubBreakFrom(s, 1)
        oneLine   == SubNewlineFrom(broken, 1)
        unmarked  == ReplaceEach(oneLine, 1)
        noDollar  == SubPrefixFrom(unmarked, 1, "$")
        noHash    == SubPrefixFrom(noDollar, 1, "#")
        stripped  == Strip(noHash)
    IN  EndWithPeriod(stripped)

----------------------------------------------------------------------------
(* Global data *)

\* JSON name :> <<HMC name, HMC #Collection>>
SETS ==
    ("HOF" :> <<"Promo", -1>>) @@ ("CORE" :> <<"Basic", 0>>) @@
    ("EXPERT1" :> <<"Classic", 1>>) @@ ("NAXX" :> <<"Naxx", 2>>) @@
    ("GVG" :> <<"GvG", 3>>) @@ ("BRM" :> <<"Blackrock", 4>>) @@
    ("TGT" :> <<"TGT", 5>>) @@ ("LOE" :> <<"LoE", 6>>) @@
    ("OG" :> <<"TOG", 7>>) @@ ("KARA" :> <<"Kara", 8>>) @@
    ("GANGS" :> <<"MSG", 9>>) @@ ("UNGORO" :> <<"Un'Goro", 10>>) @@
    ("ICECROWN" :> <<"KFT", 11>>) @@ ("LOOTAPALOOZA" :> <<"KnC", 12>>) @@
    ("GILNEAS" :> <<"Woods", 13>>) @@ ("BOOMSDAY" :> <<"Boom", 14>>)

RARITY  == <<<<"B","a","s","i","c">>, <<"C","o","m","m","o","n">>, <<"R","a","r","e">>, <<"E","p","i","c">>, <<"L","e","g","e","n","d","a","r","y">>>>
CLASSES == <<<<>>, <<"D","r","u","i","d">>, <<"H","u","n","t","e","r">>, <<"M","a","g","e">>, <<"P","a","l","a","d","i","n">>, <<"P","r","i","e","s","t">>,
             <<"R","o","g","u","e">>, <<"S","h","a","m","a","n">>, <<"W","a","r","l","o","c","k">>, <<"W","a","r","r","i","o","r">>, <<"N","e","u","t","r","a","l">>>>
STANDARD == <<"Un'Goro", "KFT", "KnC", "Woods", "Boom">>

\* x in list
InList(x, list) == \E k \in DOMAIN list : list[k] = x
\* list.index(x), zero-based, for an x that is in the list
ListIndex(list, x) == (CHOOSE k \in DOMAIN list :
                          list[k] = x /\ \A j \in 1..(k - 1) : list[j] # x) - 1

\* the gangs table of normalize_type
gangs == ("GRIMY_GOONS" :> <<"G","o","o","n">>) @@ ("KABAL" :> <<"K","a","b","a","l">>) @@
         ("JADE_LOTUS" :> <<"L","o","t","u","s">>)

\* tag :> <<HMC keyword, whether referencedTags appearances count>>
KEYWORDS ==
    ("ADAPT" :> <<<<"A","d","a","p","t">>, TRUE>>) @@ ("AURA" :> <<<<"A","u","r","a">>, FALSE>>) @@
    ("BATTLECRY" :> <<<<"B","a","t","t","l","e","c","r","y">>, FALSE>>) @@
    ("CANT_ATTACK" :> <<<<"C","a","n","'","t"," ","A","t","t","a","c","k">>, FALSE>>) @@
    ("CHARGE" :> <<<<"C","h","a","r","g","e">>, FALSE>>) @@
    ("CHOOSE_ONE" :> <<<<"C","h","o","o","s","e"," ","O","n","e">>, FALSE>>) @@
    ("COMBO" :> <<<<"C","o","m","b","o">>, FALSE>>) @@
    ("DEATHRATTLE" :> <<<<"D","e","a","t","h","r","a","t","t","l","e">>, FALSE>>) @@
    ("DISCOVER" :> <<<<"D","i","s","c","o","v","e","r">>, TRUE>>) @@
    ("DIVINE_SHIELD" :> <<<<"D","i","v","i","n","e"," ","S","h","i","e","l","d">>, FALSE>>) @@
    ("ECHO" :> <<<<"E","c","h","o">>, FALSE>>) @@ ("FREEZE" :> <<<<"F","r","e","e","z","e">>, TRUE>>) @@
    ("INSPIRE" :> <<<<"I","n","s","p","i","r","e">>, FALSE>>) @@
    ("LIFESTEAL" :> <<<<"L","i","f","e","s","t","e","a","l">>, FALSE>>) @@
    ("MODULAR" :> <<<<"M","a","g","n","e","t","i","c">>, FALSE>>) @@
    ("OVERLOAD" :> <<<<"O","v","e","r","l","o","a","d">>, FALSE>>) @@
    ("POISONOUS" :> <<<<"P","o","i","s","o","n","o","u","s">>, FALSE>>) @@
    ("RECRUIT" :> <<<<"R","e","c","r","u","i","t">>, TRUE>>) @@ ("RUSH" :> <<<<"R","u","s","h">>, FALSE>>) @@
    ("SECRET" :> <<<<"S","e","c","r","e","t">>, FALSE>>) @@
    ("SPELLPOWER" :> <<<<"S","p","e","l","l"," ","D","a","m","a","g","e">>, TRUE>>) @@
    ("STEALTH" :> <<<<"S","t","e","a","l","t","h">>, FALSE>>) @@ ("TAUNT" :> <<<<"T","a","u","n","t">>, TRUE>>) @@
    ("WINDFURY" :> <<<<"W","i","n","d","f","u","r","y">>, FALSE>>)

----------------------------------------------------------------------------
(* Values of the calls *)

\* a Python value that may be None
None    == [some |-> FALSE, val |-> <<>>]
Some(v) == [some |-> TRUE, val |-> v]
\* "if x:" for a string or None
Truthy(x) == x.some /\ x.val # <<>>

Has(c, field) == field \in DOMAIN c
\* the record with no field
NoFields == <<>>
\* c[field] = value
With(c, field, value) == (field :> value) @@ c

----------------------------------------------------------------------------
(* normalize_type *)

\* what a call of normalize_type gives: a pair, or an exception
TypeReturn(ctype, subtype) == [ok |-> TRUE, ctype |-> ctype, subtype |-> subtype]
TypeRaise(err)             == [ok |-> FALSE, err |-> err]

\* lines 113-116: the subtype the race gives
RaceSubtype(c) == IF Has(c, "race") THEN Some(Capitalize(c["race"])) ELSE None

\* variant: any QUEST among the mechanics makes the card a Quest
MechanicsType_AnyQuest(c, ctype) ==
    IF Has(c, "mechanics") /\ InList("QUEST", c["mechanics"]) THEN <<"Q","u","e","s","t">> ELSE ctype

\* lines 119-121: a card whose only mechanic is QUEST is a Quest
MechanicsType(c, ctype) ==
    IF Has(c, "mechanics") /\ c["mechanics"] = <<"QUEST">> THEN <<"Q","u","e","s","t">> ELSE ctype

\* variant: Secret does not replace the subtype the race gave
MechanicsSubtype_KeepsRace(c, subtype) ==
    IF Has(c, "mechanics") /\ c["mechanics"] = <<"SECRET">> /\ ~subtype.some
    THEN Some(<<"S","e","c","r","e","t">>) ELSE subtype

\* lines 119, 122-123: a card whose only mechanic is SECRET is a Secret
MechanicsSubtype(c, subtype) ==
    IF Has(c, "mechanics") /\ c["mechanics"] = <<"SECRET">>
    THEN Some(<<"S","e","c","r","e","t">>) ELSE subtype

\* lines 125-126; card['set'] is read only when ctype is "Hero"
DeathKnightType(c, ctype) ==
    IF ctype = <<"H","e","r","o">> /\ c["set"] = "ICECROWN" THEN <<"D","e","a","t","h"," ","K","n","i","g","h","t">> ELSE ctype

\* variant: gangs is indexed whenever the record names a group
LooksUpGang_Always(c, subtype) == Has(c, "multiClassGroup")

\* lines 127-132: whether gangs is indexed, and what subtype results
LooksUpGang(c, subtype) == Has(c, "multiClassGroup") /\ ~subtype.some
GangSubtype(c, subtype) ==
    IF LooksUpGang(c, subtype) THEN Some(gangs[c["multiClassGroup"]]) ELSE subtype

\* lines 134-135
RewriteSubtype(subtype) ==
    IF subtype = Some(<<"M","e","c","h","a","n","i","c","a","l">>) THEN Some(<<"M","e","c","h">>) ELSE subtype

normalize_type(c) ==
    IF ~Has(c, "type") THEN TypeRaise("KeyError")
    ELSE
    LET ctype0   == Capitalize(c["type"])
        subtype0 == RaceSubtype(c)
        ctype1   == MechanicsType(c, ctype0)
        subtype1 == MechanicsSubtype(c, subtype0)
    IN  IF ctype1 = <<"H","e","r","o">> /\ ~Has(c, "set") THEN TypeRaise("KeyError")
        ELSE
        LET ctype2 == DeathKnightType(c, ctype1)
        IN  IF LooksUpGang(c, subtype1) /\ c["multiClassGroup"] \notin DOMAIN gangs
            THEN TypeRaise("KeyError")
            ELSE TypeReturn(ctype2, RewriteSubtype(GangSubtype(c, subtype1)))

----------------------------------------------------------------------------
(* normalize_keywords *)

Elements(list) == {list[k] : k \in DOMAIN list}

\* lines 179-182
MechanicKeywords(c) ==
    IF Has(c, "mechanics")
    THEN {KEYWORDS[m][1] : m \in Elements(c["mechanics"]) \cap DOMAIN KEYWORDS}
    ELSE {}

\* variant: the flag of the registry entry is not consulted
ReferencedKeywords_AnyFlag(c) ==
    IF Has(c, "referencedTags")
    THEN {KEYWORDS[t][1] : t \in Elements(c["referencedTags"]) \cap DOMAIN KEYWORDS}
    ELSE {}

\* lines 183-186
ReferencedKeywords(c) ==
    IF Has(c, "referencedTags")
    THEN {KEYWORDS[t][1] :
            t \in {u \in Elements(c["referencedTags"]) \cap DOMAIN KEYWORDS :
                     KEYWORDS[u][2]}}
    ELSE {}

\* sorted(strings), for a set of strings
RECURSIVE Sorted(_)
Sorted(strings) ==
    IF strings = {} THEN <<>>
    ELSE LET least == CHOOSE s \in strings :
                         \A t \in strings \ {s} : StrLess(s, t)
         IN  <<least>> \o Sorted(strings \ {least})

normalize_keywords(c) == Sorted(MechanicKeywords(c) \cup ReferencedKeywords(c))

----------------------------------------------------------------------------
(* parse *)

\* what a call of parse gives, and the record it leaves behind in the caller
ParseReturn(normalized, c) == [ok |-> TRUE, normalized |-> normalized, card |-> c]
ParseRaise(err, c)         == [ok |-> FALSE, err |-> err, card |-> c]

\* lines 200-202
NormalizeRarity(rarity) ==
    LET capitalized == Capitalize(rarity)
    IN  IF capitalized = <<"F","r","e","e">> THEN <<"B","a","s","i","c">> ELSE capitalized

\* variant: another set stands in for the missing one
FallbackSet_Core == "CORE"

\* lines 203-205: the workaround writes into the caller's record
FallbackSet == "HOF"
SetFallback(c) == IF ~Has(c, "set") THEN With(c, "set", FallbackSet) ELSE c

\* lines 207-210
Format(collectionName) ==
    IF InList(collectionName, STANDARD) THEN "Standard" ELSE "Wild"

\* unicode.encode('ascii'): the same characters, or UnicodeEncodeError
Encodable(s) == \A k \in DOMAIN s : IsAscii(s[k])

\* lines 221-224: the text that is normalized, if any
TextSource(c) ==
    IF Has(c, "collectionText") THEN Some(c["collectionText"])
    ELSE IF Has(c, "text") THEN Some(c["text"])
    ELSE None

\* separator.join(strings)
RECURSIVE Join(_, _)
Join(strings, separator) ==
    IF strings = <<>> THEN <<>>
    ELSE IF Len(strings) = 1 THEN strings[1]
    ELSE strings[1] \o separator \o Join(Tail(strings), separator)

\* a column that is set only under a condition
Column(present, name, value) == IF present THEN name :> value ELSE NoFields

\* variant: "if subtype is not None" in place of "if subtype"
SubTypeColumn_NotNone(subtype) == Column(subtype.some, "Sub-Type", subtype.val)

\* lines 215-216
SubTypeColumn(subtype) == Column(Truthy(subtype), "Sub-Type", subtype.val)
\* lines 225-229
KeywordsColumn(keywords) ==
    Column(keywords # <<>>, "Keywords", Join(keywords, <<";"," ">>))
\* lines 206, 231
CollectionName(c)  == SETS[c["set"]][1]
CollectionIndex(c) == SETS[c["set"]][2]

parse(card0) ==
    IF ~Has(card0, "cost") \/ ~Has(card0, "name") \/ ~Has(card0, "rarity")
    THEN ParseRaise("KeyError", card0)
    ELSE
    LET rarity == NormalizeRarity(card0["rarity"])
        c      == SetFallback(card0)
    IN  IF c["set"] \notin DOMAIN SETS \/ ~Has(c, "cardClass")
        THEN ParseRaise("KeyError", c)
        ELSE
        LET class == Capitalize(c["cardClass"])
            type  == normalize_type(c)
            text  == TextSource(c)
            clean == IF text.some THEN normalize_text(text.val) ELSE <<>>
            keywords == normalize_keywords(c)
        IN  IF ~type.ok THEN ParseRaise(type.err, c)
            ELSE IF text.some /\ ~Encodable(clean)
            THEN ParseRaise("UnicodeEncodeError", c)
            ELSE IF ~InList(rarity, RARITY) \/ ~InList(class, CLASSES)
            THEN ParseRaise("ValueError", c)
            ELSE ParseReturn(
                    ("Mana" :> c["cost"]) @@ ("Name" :> c["name"]) @@
                    ("Rarity" :> rarity) @@
                    ("Collection" :> CollectionName(c)) @@
                    ("Format" :> Format(CollectionName(c))) @@
                    ("Class" :> class) @@ ("Type" :> type.ctype) @@
                    SubTypeColumn(type.subtype) @@
                    Column(Has(c, "attack"), "ATK", c["attack"]) @@
                    Column(Has(c, "health"), "HP", c["health"]) @@
                    Column(text.some, "Card Text", clean) @@
                    KeywordsColumn(keywords) @@
                    ("#Rarity" :> ListIndex(RARITY, rarity)) @@
                    ("#Collection" :> CollectionIndex(c)) @@
                    ("#Class" :> ListIndex(CLASSES, class)),
                    c)

----------------------------------------------------------------------------
(* output *)

\* a header cell that is None
NoHeader == ""
headers == <<NoHeader, "Mana", "Name", "Rarity", "Collection", "Class", "N", "G",
             "W1", "W2", "Type", "Sub-Type", "ATK", "HP", "Card Text",
             "Keywords", "Format", "N-SB-Lookup", "G-SB-Lookup", "Tier List",
             NoHeader, "#Rarity", "#Collection", "#Class">>

\* lines 258-263: the cells of one row; an empty cell is None
Row(entry) ==
    [k \in DOMAIN headers |->
        IF headers[k] # NoHeader /\ Has(entry, headers[k])
        THEN Some(entry[headers[k]]) ELSE None]

\* lines 254-264: the rows appended to the worksheet, the header row first
Worksheet(cards) == <<headers>> \o [k \in DOMAIN cards |-> Row(cards[k])]

----------------------------------------------------------------------------
(* Inputs *)

MaxFragments == 3   \* pieces an input text is put together from
MaxPasses    == 2   \* applications of normalize_text to one text
MaxTags      == 2   \* length of a mechanics or referencedTags list
MaxCards     == 3   \* records in the input file

\* the sequences over a set of at most n elements
ListsUpTo(elements, n) == UNION {[1..k -> elements] : k \in 0..n}

\* the pieces of card texts: markup, halves of markup, the characters the
\* rules look at, and one letter of each case
Fragments ==
    { <<"<","b",">">>, <<"<","/","b",">">>, <<"[","x","]">>, <<"<">>, <<"b",">">>, <<NL>>, <<" ">>, <<NBSP>>,
      <<"$">>, <<"#">>, <<"1">>, <<".">>, <<")">>, <<"A">>, <<"a">> }

RECURSIVE Concat(_)
Concat(pieces) == IF pieces = <<>> THEN <<>> ELSE Head(pieces) \o Concat(Tail(pieces))

Texts == {Concat(pieces) : pieces \in ListsUpTo(Fragments, MaxFragments)}

\* the records with one field, and the choice of not having the field
Always(field, values)  == {field :> v : v \in values}
Options(field, values) == {NoFields} \cup Always(field, values)

\* the fields parse cannot do without, with values it accepts
Required ==
    ("cost" :> 3) @@ ("name" :> "Card") @@ ("rarity" :> <<"C","O","M","M","O","N">>) @@
    ("cardClass" :> <<"M","A","G","E">>) @@ ("type" :> <<"S","P","E","L","L">>)

\* records that differ in what normalize_type reads
TypeCards ==
    { t @@ r @@ m @@ s @@ g @@ Required :
        t \in Options("type", {<<"S","P","E","L","L">>, <<"H","E","R","O">>, <<"M","I","N","I","O","N">>, <<"h","e","r","o">>}),
        r \in Options("race", {<<"M","E","C","H","A","N","I","C","A","L">>, <<"E","L","E","M","E","N","T","A","L">>, <<>>}),
        m \in Options("mechanics", ListsUpTo({"QUEST", "SECRET", "TAUNT"}, MaxTags)),
        s \in Options("set", {"HOF", "ICECROWN", "NOSUCHSET"}),
        g \in Options("multiClassGroup",
                      {"GRIMY_GOONS", "KABAL", "JADE_LOTUS", "NOSUCHGROUP"}) }

\* records that differ in what normalize_keywords reads
KeywordCards ==
    { m @@ r @@ Required :
        m \in Options("mechanics",
                      ListsUpTo({"SECRET", "TAUNT", "BATTLECRY", "DIVINE_SHIELD",
                                 "QUEST"}, MaxTags)),
        r \in Options("referencedTags",
                      ListsUpTo({"SECRET", "TAUNT", "RECRUIT", "SPELLPOWER",
                                 "JADE_GOLEM"}, MaxTags)) }

\* records that differ in the fields parse copies only when they are there
OptionalCards ==
    { s @@ r @@ m @@ t @@ g @@ a @@ h @@ ct @@ tx @@ Required :
        s  \in Options("set", {"ICECROWN"}),
        r  \in Options("race", {<<"M","E","C","H","A","N","I","C","A","L">>, <<>>}),
        m  \in Options("mechanics", {<<"SECRET">>, <<"TAUNT", "BATTLECRY">>}),
        t  \in Options("referencedTags", {<<"SECRET">>, <<"RECRUIT", "TAUNT">>}),
        g  \in Options("multiClassGroup", {"KABAL", "NOSUCHGROUP"}),
        a  \in Options("attack", {2}),
        h  \in Options("health", {5}),
        ct \in Options("collectionText", {<<"<","b",">","T","a","u","n","t","<","/","b",">">> \o <<NL>> \o <<"D","e","a","l"," ","$","2",".">>}),
        tx \in Options("text", {<<"[","x","]","D","r","a","w"," ","a"," ","c","a","r","d">>, <<EACUTE>>}) }

\* records that differ in the fields parse looks up
LookupCards ==
    { c @@ n @@ r @@ s @@ k @@ t :
        c \in Options("cost", {3}),
        n \in Options("name", {"Card"}),
        r \in Options("rarity", {<<"F","R","E","E">>, <<"C","O","M","M","O","N">>, <<"L","e","g","e","n","d","a","r","y">>, <<"T","O","K","E","N">>}),
        s \in Options("set", DOMAIN SETS \cup {"NOSUCHSET"}),
        k \in Options("cardClass", {<<"M","A","G","E">>, <<"N","E","U","T","R","A","L">>, <<>>, <<"D","R","E","A","M">>}),
        t \in Options("type", {<<"H","E","R","O">>, <<"M","I","N","I","O","N">>}) }

ParseCards == OptionalCards \cup LookupCards

\* the records of the input files of the driver
FileCards ==
    { ("name" :> "Frost Lich Jaina") @@ ("set" :> "ICECROWN") @@
          ("type" :> <<"H","E","R","O">>) @@ Required,
      ("name" :> "Ice Lance") @@ ("mechanics" :> <<"FREEZE">>) @@ Required,
      ("name" :> "Fireblast") @@ ("set" :> "CORE") @@ Required,
      ("name" :> "Jaina Proudmoore") @@ ("set" :> "CORE") @@
          ("rarity" :> <<"F","R","E","E">>) @@ ("cardClass" :> <<"M","A","G","E">>) @@ ("type" :> <<"H","E","R","O">>),
      ("name" :> "Unreleased Hero") @@ ("set" :> "NOSUCHSET") @@
          ("rarity" :> <<"F","R","E","E">>) @@ ("cardClass" :> <<"M","A","G","E">>) @@ ("type" :> <<"H","E","R","O">>),
      ("name" :> "Unreleased Spell") @@ ("set" :> "NOSUCHSET") @@ Required,
      ("name" :> "Nightmare") @@ ("cardClass" :> <<"D","R","E","A","M">>) @@ Required }

\* args.sets: not given, or one or more names
AllowLists == {<<>>, <<"KFT">>, <<"Promo", "Basic">>, <<"HOF">>, <<"ICECROWN">>}

----------------------------------------------------------------------------
(* The text normalizer, applied to a text and again to its result *)

TextIdle == /\ ustring = <<>> /\ previous = <<>> /\ passes = 0
CallIdle == /\ card = NoFields /\ given = NoFields /\ called = "none" /\ ret = NoFields
DriverIdle ==
    /\ collection = <<>> /\ sets = <<>> /\ idx = 1
    /\ processed = <<>> /\ pc = "idle" /\ parsed = <<>> /\ written = <<>>

InitText ==
    /\ ustring \in Texts
    /\ previous = ustring
    /\ passes = 0
    /\ CallIdle /\ DriverIdle

ApplyNormalizeText ==
    /\ passes < MaxPasses
    /\ previous' = ustring
    /\ ustring' = normalize_text(ustring)
    /\ passes' = passes + 1
    /\ UNCHANGED <<callVars, driverVars>>

NextText == ApplyNormalizeText
SpecText == InitText /\ [][NextText]_vars

----------------------------------------------------------------------------
(* One call of a function of the core on one record *)

CallNormalizeType ==
    /\ called = "none"
    /\ called' = "normalize_type"
    /\ ret' = normalize_type(card)
    /\ UNCHANGED <<card, given, textVars, driverVars>>

CallNormalizeKeywords ==
    /\ called = "none"
    /\ called' = "normalize_keywords"
    /\ ret' = normalize_keywords(card)
    /\ UNCHANGED <<card, given, textVars, driverVars>>

\* parse leaves its changes of the record to the caller, also when it raises
CallParse ==
    /\ called = "none"
    /\ called' = "parse"
    /\ LET r == parse(card)
       IN  /\ card' = r.card
           /\ given' = card
           /\ ret' = IF r.ok THEN [ok |-> TRUE, normalized |-> r.normalized]
                     ELSE [ok |-> FALSE, err |-> r.err]
    /\ UNCHANGED <<textVars, driverVars>>

InitCall(cards) ==
    /\ card \in cards
    /\ given = card
    /\ called = "none"
    /\ ret = NoFields
    /\ TextIdle /\ DriverIdle

InitType == InitCall(TypeCards)
NextType == CallNormalizeType \/ CallParse
SpecType == InitType /\ [][NextType]_vars

InitKw == InitCall(KeywordCards)
NextKw == CallNormalizeKeywords
SpecKw == InitKw /\ [][NextKw]_vars

InitParse == InitCall(ParseCards)
NextParse == CallParse
SpecParse == InitParse /\ [][NextParse]_vars

----------------------------------------------------------------------------
(* The driver: lines 270-284 *)

\* variant: the allow-list is not applied
Selected_All(entry, allow) == TRUE

\* line 282
Selected(entry, allow) == allow = <<>> \/ InList(entry["Collection"], allow)

Init ==
    /\ collection \in ListsUpTo(FileCards, MaxCards)
    /\ sets \in AllowLists
    /\ idx = 1
    /\ processed = <<>>
    /\ pc = "loop"
    /\ parsed = <<>>
    /\ written = <<>>
    /\ TextIdle /\ CallIdle

\* variant: a record that parse rejects is skipped and the loop goes on
LoopBody_SkipsFailures ==
    /\ pc = "loop"
    /\ idx <= Len(collection)
    /\ IF ~Has(collection[idx], "cost")
       THEN /\ idx' = idx + 1
            /\ UNCHANGED <<collection, processed, pc, parsed>>
       ELSE LET r == parse(collection[idx])
            IN  /\ collection' = [collection EXCEPT ![idx] = r.card]
                /\ parsed' = Append(parsed, idx)
                /\ processed' = IF r.ok /\ Selected(r.normalized, sets)
                                 THEN Append(processed, r.normalized)
                                 ELSE processed
                /\ idx' = idx + 1
                /\ pc' = pc
    /\ UNCHANGED <<sets, written, textVars, callVars>>

\* lines 274-283: one turn of the loop
LoopBody ==
    /\ pc = "loop"
    /\ idx <= Len(collection)
    /\ IF ~Has(collection[idx], "cost")
       THEN /\ idx' = idx + 1
            /\ UNCHANGED <<collection, processed, pc, parsed>>
       ELSE LET r == parse(collection[idx])
            IN  /\ collection' = [collection EXCEPT ![idx] = r.card]
                /\ parsed' = Append(parsed, idx)
                /\ IF r.ok
                   THEN /\ processed' = IF Selected(r.normalized, sets)
                                        THEN Append(processed, r.normalized)
                                        ELSE processed
                        /\ idx' = idx + 1
                        /\ pc' = pc
                   ELSE /\ pc' = "raised"
                        /\ UNCHANGED <<idx, processed>>
    /\ UNCHANGED <<sets, written, textVars, callVars>>

\* line 284
Output ==
    /\ pc = "loop"
    /\ idx > Len(collection)
    /\ written' = Append(written, Worksheet(processed))
    /\ pc' = "done"
    /\ UNCHANGED <<collection, sets, idx, processed, parsed, textVars, callVars>>

Next == LoopBody \/ Output
Spec == Init /\ [][Next]_vars

----------------------------------------------------------------------------
(* Properties *)

\* the tags of a list field of a record; none when the field is missing
TagsOf(c, field) == IF Has(c, field) THEN Elements(c[field]) ELSE {}
\* the list of a list field compared with a given list; a missing field differs
ListIs(c, field, list) == Has(c, field) /\ c[field] = list

\* C1: normalize_text is idempotent: a second pass over the result of a first
\* pass changes nothing.
C1_Idempotent == passes >= 2 => ustring = previous

\* C2: normalize_keywords returns a strictly ascending sequence that holds
\* exactly the labels of the registered tags of 'mechanics' and of the
\* registered tags of 'referencedTags' whose flag is true; referencedTags
\* ['SECRET'] with mechanics [] gives no 'Secret'.
C2_KeywordsExactAndSorted ==
    called = "normalize_keywords" =>
        /\ \A i, j \in DOMAIN ret : i < j => StrLess(ret[i], ret[j])
        /\ \A k \in DOMAIN KEYWORDS :
               InList(KEYWORDS[k][1], ret) <=>
                   \E t \in DOMAIN KEYWORDS :
                       /\ KEYWORDS[t][1] = KEYWORDS[k][1]
                       /\ \/ t \in TagsOf(card, "mechanics")
                          \/ t \in TagsOf(card, "referencedTags") /\ KEYWORDS[t][2]
        /\ \A i \in DOMAIN ret : \E k \in DOMAIN KEYWORDS : ret[i] = KEYWORDS[k][1]
        /\ (ListIs(card, "referencedTags", <<"SECRET">>) /\ ListIs(card, "mechanics", <<>>))
               => ret = <<>>

\* a tag in both lists gives its label once, next to a label only 'mechanics'
\* gives, while the referenced SECRET gives none
C2_Witness ==
    /\ called = "normalize_keywords"
    /\ ListIs(card, "mechanics", <<"TAUNT", "BATTLECRY">>)
    /\ ListIs(card, "referencedTags", <<"TAUNT", "SECRET">>)
    /\ ret = <<<<"B","a","t","t","l","e","c","r","y">>, <<"T","a","u","n","t">>>>

\* C3: parse leaves the record it is given as it was: the same fields with the
\* same values, whether it returns or raises.
C3_RecordUnchanged == called = "parse" => card = given

\* C4 as claimed: a multiClassGroup that is not one of the three groups makes
\* normalize_type fail with a lookup error, whatever the other fields are.
C4_UnknownGroupAlwaysFails ==
    (called = "normalize_type" /\ Has(card, "multiClassGroup")
        /\ card["multiClassGroup"] \notin {"GRIMY_GOONS", "KABAL", "JADE_LOTUS"})
    => (~ret.ok /\ ret.err = "KeyError")

\* C4 as amended: such a group makes normalize_type fail with a lookup error
\* when the record has no race and its mechanics are not exactly ['SECRET'];
\* when a race or a sole SECRET has assigned a subtype the group is not looked
\* up, and a record that has its type and set is resolved and keeps that subtype.
C4_UnknownGroupFailsUnlessSubtype ==
    (called = "normalize_type" /\ Has(card, "multiClassGroup")
        /\ card["multiClassGroup"] \notin {"GRIMY_GOONS", "KABAL", "JADE_LOTUS"})
    => IF ~Has(card, "race") /\ ~ListIs(card, "mechanics", <<"SECRET">>)
       THEN ~ret.ok /\ ret.err = "KeyError"
       ELSE (Has(card, "type") /\ Has(card, "set")) => (ret.ok /\ ret.subtype.some)

C4_Witness ==
    /\ called = "normalize_type"
    /\ Has(card, "type") /\ Has(card, "set")
    /\ Has(card, "multiClassGroup") /\ card["multiClassGroup"] = "NOSUCHGROUP"
    /\ ~Has(card, "race") /\ ListIs(card, "mechanics", <<"SECRET", "TAUNT">>)
    /\ ret = TypeRaise("KeyError")

\* C5: a record parse returns has the ten columns every row has, and each of
\* the five other columns only when its source is there: Sub-Type only for a
\* non-empty subtype, ATK only with 'attack', HP only with 'health', Card Text
\* only with 'collectionText' or 'text', Keywords only for a non-empty
\* keyword sequence.
C5_ColumnsPresent ==
    (called = "parse" /\ ret.ok) =>
        LET n == ret.normalized
            t == normalize_type(card)
        IN  /\ {"Mana", "Name", "Rarity", "Collection", "Class", "Type", "Format",
                "#Rarity", "#Collection", "#Class"} \subseteq DOMAIN n
            /\ Has(n, "Sub-Type") => (t.ok /\ t.subtype.some /\ t.subtype.val # <<>>
                                      /\ n["Sub-Type"] # <<>>)
            /\ Has(n, "ATK") => Has(given, "attack")
            /\ Has(n, "HP") => Has(given, "health")
            /\ Has(n, "Card Text") => (Has(given, "collectionText") \/ Has(given, "text"))
            /\ Has(n, "Keywords") => normalize_keywords(given) # <<>>

\* a record with an empty race, with health and without attack
C5_Witness ==
    /\ called = "parse" /\ ret.ok
    /\ Has(given, "race") /\ given["race"] = <<>>
    /\ ~Has(given, "attack") /\ Has(given, "health")
    /\ ~Has(given, "mechanics") /\ Has(given, "referencedTags")
    /\ DOMAIN ret.normalized =
          {"Mana", "Name", "Rarity", "Collection", "Class", "Type", "Format",
           "#Rarity", "#Collection", "#Class", "HP"}

\* the set identifier that counts for a record
EffectiveSet(c) == IF Has(c, "set") THEN c["set"] ELSE "HOF"

\* C6: with s the record's 'set', or 'HOF' when it has none, a record parse
\* returns has Collection = the registry's name of s and #Collection = the
\* registry's index of s (Promo and -1 for a record without set), and parse
\* fails when s is not in the registry.
C6_CollectionFromRegistry ==
    called = "parse" =>
        LET s == EffectiveSet(given)
        IN  /\ ret.ok => /\ s \in DOMAIN SETS
                         /\ ret.normalized["Collection"] = SETS[s][1]
                         /\ ret.normalized["#Collection"] = SETS[s][2]
            /\ (ret.ok /\ ~Has(given, "set")) =>
                   /\ ret.normalized["Collection"] = "Promo"
                   /\ ret.normalized["#Collection"] = -1
            /\ s \notin DOMAIN SETS => ~ret.ok

C6_Witness ==
    /\ called = "parse" /\ ret.ok
    /\ ~Has(given, "set")
    /\ ret.normalized["Collection"] = "Promo"
    /\ ret.normalized["#Collection"] = -1

\* the rows the first n records of the input give: the normalized records, in
\* input order, of the records with 'cost' whose Collection the allow-list admits
RECURSIVE RowsOfPrefix(_)
RowsOfPrefix(n) ==
    IF n = 0 THEN <<>>
    ELSE LET c == collection[n]
         IN  IF /\ Has(c, "cost")
                /\ \/ sets = <<>>
                   \/ parse(c).normalized["Collection"] \in Elements(sets)
             THEN RowsOfPrefix(n - 1) \o <<parse(c).normalized>>
             ELSE RowsOfPrefix(n - 1)

\* the positions among the first n whose record has 'cost', in order
RECURSIVE CostPositions(_)
CostPositions(n) ==
    IF n = 0 THEN <<>>
    ELSE IF Has(collection[n], "cost") THEN Append(CostPositions(n - 1), n)
    ELSE CostPositions(n - 1)

\* C7: when the loop has gone through a prefix of the input without failure,
\* the rows are the normalized records, in input order, of the records of the
\* prefix that have 'cost' and whose Collection is in the allow-list (if one is
\* given); only records with 'cost' have been handed to parse.
C7_RowsOfPrefix ==
    pc \in {"loop", "raised", "done"} =>
        /\ processed = RowsOfPrefix(idx - 1)
        /\ \A k \in Elements(parsed) : Has(collection[k], "cost")
        /\ pc # "raised" => parsed = CostPositions(idx - 1)

\* three records went through: one without cost, one the allow-list (which
\* names a Collection, not a set id) admits, and one it does not
C7_Witness ==
    /\ pc = "loop" /\ idx = 4
    /\ sets = <<"KFT">>
    /\ collection[1]["name"] = "Jaina Proudmoore"
    /\ collection[2]["name"] = "Frost Lich Jaina"
    /\ collection[3]["name"] = "Fireblast"
    /\ parsed = <<2, 3>>
    /\ Len(processed) = 1 /\ processed[1]["Name"] = "Frost Lich Jaina"

\* the subtype of lines 113-135 for a record that normalize_type resolves
ExpectedSubtype(c) ==
    IF ListIs(c, "mechanics", <<"SECRET">>) THEN Some(<<"S","e","c","r","e","t">>)
    ELSE IF Has(c, "race")
         THEN (IF Capitalize(c["race"]) = <<"M","e","c","h","a","n","i","c","a","l">> THEN Some(<<"M","e","c","h">>)
               ELSE Some(Capitalize(c["race"])))
    ELSE IF Has(c, "multiClassGroup")
         THEN (CASE c["multiClassGroup"] = "GRIMY_GOONS" -> Some(<<"G","o","o","n">>)
                 [] c["multiClassGroup"] = "KABAL"       -> Some(<<"K","a","b","a","l">>)
                 [] c["multiClassGroup"] = "JADE_LOTUS"  -> Some(<<"L","o","t","u","s">>))
    ELSE None

\* C8: the subtype normalize_type returns is Secret for mechanics ['SECRET'],
\* else the capitalized race, else the label of the group, else none; a group
\* never replaces a subtype, and Mechanical is returned as Mech.
C8_SubtypePrecedence ==
    (called = "normalize_type" /\ ret.ok) =>
        /\ ret.subtype = ExpectedSubtype(card)
        /\ ret.subtype # Some(<<"M","e","c","h","a","n","i","c","a","l">>)

C8_Witness ==
    /\ called = "normalize_type" /\ ret.ok
    /\ ListIs(card, "mechanics", <<"SECRET">>)
    /\ Has(card, "race") /\ card["race"] = <<"M","E","C","H","A","N","I","C","A","L">>
    /\ Has(card, "multiClassGroup") /\ card["multiClassGroup"] = "KABAL"
    /\ ret.subtype = Some(<<"S","e","c","r","e","t">>)

\* the display type of lines 112-126 for a record whose set is s
ExpectedType(c, s) ==
    IF ListIs(c, "mechanics", <<"QUEST">>) THEN <<"Q","u","e","s","t">>
    ELSE IF Capitalize(c["type"]) = <<"H","e","r","o">> /\ s = "ICECROWN" THEN <<"D","e","a","t","h"," ","K","n","i","g","h","t">>
    ELSE Capitalize(c["type"])

\* what makes normalize_type fail on a record that has its type and its set
GroupLookupFails(c) ==
    /\ Has(c, "multiClassGroup")
    /\ c["multiClassGroup"] \notin {"GRIMY_GOONS", "KABAL", "JADE_LOTUS"}
    /\ ~Has(c, "race") /\ ~ListIs(c, "mechanics", <<"SECRET">>)

\* C9: the type normalize_type returns is Quest for mechanics ['QUEST'], else
\* Death Knight for a Hero of set ICECROWN, else the capitalized type; and
\* parse gives a Hero without a set field the type Hero, the missing set
\* making it fail neither there nor later.
C9_TypeResolution ==
    /\ (called = "normalize_type" /\ ret.ok) =>
           ret.ctype = ExpectedType(card, EffectiveSet(card))
    /\ (called = "parse" /\ ret.ok) =>
           ret.normalized["Type"] = ExpectedType(given, EffectiveSet(given))
    /\ (called = "parse" /\ Has(given, "type") /\ ~Has(given, "set")
            /\ Capitalize(given["type"]) = <<"H","e","r","o">>
            /\ ~ListIs(given, "mechanics", <<"QUEST">>)) =>
           /\ ~normalize_type(given).ok
           /\ ret.ok <=> ~GroupLookupFails(given)
           /\ ret.ok => ret.normalized["Type"] = <<"H","e","r","o">>

C9_Witness ==
    /\ called = "parse" /\ ret.ok
    /\ ~Has(given, "set")
    /\ given["type"] = <<"H","E","R","O">>
    /\ ListIs(given, "mechanics", <<"QUEST", "TAUNT">>)
    /\ ret.normalized["Type"] = <<"H","e","r","o">>

\* C10: the table is written at most once and only when every record with
\* 'cost' has been normalized; a record parse rejects (be its Collection in
\* the allow-list or not) ends the run where it stands, with nothing written
\* and nothing more to be done.
C10_AllOrNothing ==
    /\ Len(written) <= 1
    /\ written # <<>> =>
           /\ pc = "done"
           /\ parsed = CostPositions(Len(collection))
           /\ \A k \in DOMAIN collection :
                  Has(collection[k], "cost") => parse(collection[k]).ok
           /\ written = <<Worksheet(processed)>>
    /\ \A k \in Elements(parsed) :
           ~parse(collection[k]).ok => (pc = "raised" /\ k = idx)
    /\ pc = "raised" =>
           /\ written = <<>>
           /\ ~parse(collection[idx]).ok
           /\ parsed = CostPositions(idx)
           /\ ~ENABLED Next

\* the run ended at a record whose Collection (Promo) the allow-list would
\* have left out, with a record with 'cost' still to come
C10_Witness ==
    /\ pc = "raised" /\ idx = 1 /\ Len(collection) = 2
    /\ sets = <<"KFT">>
    /\ collection[1]["name"] = "Nightmare"
    /\ collection[2]["name"] = "Frost Lich Jaina"
    /\ parsed = <<1>>
    /\ written = <<>>

====
